---- MODULE Spec2Model ----
(***************************************************************************)
(* Model of pep517/wrappers.py: the path validator norm_and_check, the     *)
(* Pep517HookCaller constructor, the scoped runner override                *)
(* subprocess_runner, and the invocation routine _call_hook with its       *)
(* scratch directory (tempdir).                                            *)
(*                                                                         *)
(* Strings that the code inspects character by character (paths) are       *)
(* sequences of one-character strings: "/p" is <<"/", "p">>.  Path         *)
(* functions are those of posixpath.                                       *)
(***************************************************************************)
EXTENDS Integers, Sequences, FiniteSets, TLC

(***************************************************************************)
(* Bounds of the model.                                                    *)
(***************************************************************************)
\* longest candidate path string drawn for the path validator
MaxCandLen == 5
\* most entries of a backend_path list besides the candidate under test
MaxOthers == 1

(***************************************************************************)
(* Strings.                                                                *)
(***************************************************************************)
Chars == {"/", ".", "p"}

RECURSIVE StringsUpTo(_)
StringsUpTo(n) ==
    IF n = 0 THEN {<<>>}
    ELSE LET shorter == StringsUpTo(n - 1)
         IN  shorter \cup {Append(s, c) : s \in shorter, c \in Chars}

startswith(s, prefix) ==
    /\ Len(s) >= Len(prefix)
    /\ SubSeq(s, 1, Len(prefix)) = prefix

endswith(s, suffix) ==
    /\ Len(s) >= Len(suffix)
    /\ SubSeq(s, Len(s) - Len(suffix) + 1, Len(s)) = suffix

\* str.split('/'): the pieces between separators, empty pieces included
RECURSIVE split(_)
split(s) ==
    IF \A k \in 1..Len(s) : s[k] # "/" THEN <<s>>
    ELSE LET k == CHOOSE j \in 1..Len(s) :
                      s[j] = "/" /\ \A m \in 1..(j - 1) : s[m] # "/"
         IN  <<SubSeq(s, 1, k - 1)>> \o split(SubSeq(s, k + 1, Len(s)))

\* '/'.join(comps)
RECURSIVE joinSlash(_)
joinSlash(comps) ==
    IF Len(comps) = 0 THEN <<>>
    ELSE IF Len(comps) = 1 THEN comps[1]
    ELSE comps[1] \o <<"/">> \o joinSlash(Tail(comps))

(***************************************************************************)
(* posixpath, as called by norm_and_check and __init__.                    *)
(***************************************************************************)
isabs(s) == startswith(s, <<"/">>)

join(a, b) ==
    IF startswith(b, <<"/">>) THEN b
    ELSE IF a = <<>> \/ endswith(a, <<"/">>) THEN a \o b
    ELSE a \o <<"/">> \o b

DotDot == <<".", ".">>

\* the loop of posixpath.normpath over the split components
RECURSIVE normComps(_, _, _)
normComps(comps, new_comps, initial_slashes) ==
    IF comps = <<>> THEN new_comps
    ELSE LET comp == Head(comps)
             rest == Tail(comps)
         IN  IF comp = <<>> \/ comp = <<".">>
             THEN normComps(rest, new_comps, initial_slashes)
             ELSE IF \/ comp # DotDot
                     \/ (initial_slashes = 0 /\ new_comps = <<>>)
                     \/ (new_comps # <<>> /\ new_comps[Len(new_comps)] = DotDot)
             THEN normComps(rest, Append(new_comps, comp), initial_slashes)
             ELSE IF new_comps # <<>>
             THEN normComps(rest, SubSeq(new_comps, 1, Len(new_comps) - 1),
                            initial_slashes)
             ELSE normComps(rest, new_comps, initial_slashes)

initialSlashes(path) ==
    IF ~startswith(path, <<"/">>) THEN 0
    ELSE IF startswith(path, <<"/", "/">>) /\ ~startswith(path, <<"/", "/", "/">>)
    THEN 2
    ELSE 1

normpath(path) ==
    IF path = <<>> THEN <<".">>
    ELSE LET n == initialSlashes(path)
             body == joinSlash(normComps(split(path), <<>>, n))
             res == [k \in 1..n |-> "/"] \o body
         IN  IF res = <<>> THEN <<".">> ELSE res

abspath(cwd, path) ==
    IF isabs(path) THEN normpath(path) ELSE normpath(join(cwd, path))

\* posixpath.normcase returns its argument
normcase(s) == s

\* os.path.commonprefix of two strings: their longest common leading characters
RECURSIVE commonprefix(_, _)
commonprefix(s1, s2) ==
    IF s1 = <<>> \/ s2 = <<>> \/ Head(s1) # Head(s2) THEN <<>>
    ELSE <<Head(s1)>> \o commonprefix(Tail(s1), Tail(s2))

(***************************************************************************)
(* norm_and_check.  A result is [exc, val]: exc is "None" when the         *)
(* function returned val, else the message of the ValueError raised.       *)
(***************************************************************************)
NoExc == "None"
Raise(msg) == [exc |-> msg, val |-> <<>>]
Return(v) == [exc |-> NoExc, val |-> v]

\* norm_and_check asking for a separator after the root: root itself is refused
norm_and_check_strict(cwd, source_tree, requested) ==
    IF isabs(requested) THEN Raise("paths must be relative")
    ELSE LET abs_source == abspath(cwd, source_tree)
             abs_requested == normpath(join(abs_source, requested))
         IN  IF ~startswith(normcase(abs_requested),
                            normcase(abs_source) \o <<"/">>)
             THEN Raise("paths must be inside source tree")
             ELSE Return(abs_requested)

norm_and_check(cwd, source_tree, requested) ==
    IF isabs(requested) THEN Raise("paths must be relative")
    ELSE LET abs_source == abspath(cwd, source_tree)
             abs_requested == normpath(join(abs_source, requested))
             norm_source == normcase(abs_source)
             norm_requested == normcase(abs_requested)
         IN  IF commonprefix(norm_source, norm_requested) # norm_source
             THEN Raise("paths must be inside source tree")
             ELSE Return(abs_requested)

(***************************************************************************)
(* Pep517HookCaller.__init__.  A backend_path that is None is the list     *)
(* NoneList (no path is the string "None": paths are sequences of single   *)
(* characters).  `if backend_path:` is false for None and for [].          *)
(***************************************************************************)
NoneList == << <<"None">> >>

default_subprocess_runner == "default_subprocess_runner"

RECURSIVE checkAll(_, _, _)
\* the list comprehension of __init__: the first failing entry raises
checkAll(cwd, source_dir, backend_path) ==
    IF backend_path = <<>> THEN [exc |-> NoExc, val |-> <<>>]
    ELSE LET first == norm_and_check(cwd, source_dir, Head(backend_path))
         IN  IF first.exc # NoExc THEN [exc |-> first.exc, val |-> <<>>]
             ELSE LET rest == checkAll(cwd, source_dir, Tail(backend_path))
                  IN  IF rest.exc # NoExc THEN rest
                      ELSE [exc |-> NoExc, val |-> <<first.val>> \o rest.val]

NoObject ==
    [source_dir |-> <<>>, build_backend |-> "", backend_path |-> NoneList,
     _subprocess_runner |-> ""]

\* [exc, obj]: obj is the constructed instance when exc is "None"
HookCallerInit(cwd, source_dir, build_backend, backend_path) ==
    LET abs_source_dir == abspath(cwd, source_dir)
        checked == IF backend_path # NoneList /\ backend_path # <<>>
                   THEN checkAll(cwd, abs_source_dir, backend_path)
                   ELSE [exc |-> NoExc, val |-> backend_path]
    IN  IF checked.exc # NoExc THEN [exc |-> checked.exc, obj |-> NoObject]
        ELSE [exc |-> NoExc,
              obj |-> [source_dir |-> abs_source_dir,
                       build_backend |-> build_backend,
                       backend_path |-> checked.val,
                       _subprocess_runner |-> default_subprocess_runner]]

(***************************************************************************)
(* Inputs of the path validator and of the constructor.                    *)
(***************************************************************************)
Candidates == StringsUpTo(MaxCandLen)

SourceDirs ==
    {<<"/", "p">>, <<"/">>, <<"/", "/", "p">>, <<"p">>, <<"/", "p", "/">>}

Cwds == {<<"/">>, <<"/", "p">>}

\* entries that accompany the candidate under test in a backend_path list
OtherEntries == {<<"p">>, <<".">>}

RECURSIVE ListsUpTo(_, _)
ListsUpTo(S, n) ==
    IF n = 0 THEN {<<>>}
    ELSE LET shorter == ListsUpTo(S, n - 1)
         IN  shorter \cup {Append(l, e) : l \in shorter, e \in S}

\* every list made of one candidate at any position among up to MaxOthers others
BackendPaths(c) ==
    {NoneList, <<>>} \cup
    UNION {{SubSeq(l, 1, k) \o <<c>> \o SubSeq(l, k + 1, Len(l)) : k \in 0..Len(l)} :
           l \in ListsUpTo(OtherEntries, MaxOthers)}

(***************************************************************************)
(* Python values that cross the JSON boundary are pairs <<type, repr>>.    *)
(***************************************************************************)
PyNone == <<"NoneType", "None">>
PyFalse == <<"bool", "False">>
PyTrue == <<"bool", "True">>
PyInt(n) == <<"int", n>>
PyStr(s) == <<"str", s>>
PyList(items) == <<"list", items>>

\* bool(v) as used by `if data.get(...)`
truthy(v) ==
    ~ \/ v = PyNone
      \/ v = PyFalse
      \/ v = PyInt("0")
      \/ v = PyStr("")
      \/ v = PyList("")

\* JSON texts a backend writes as field values, and json.load of each
JsonTexts ==
    {"null", "false", "true", "0", "[]", "\"\"", "\"T\"", "\"E\"",
     "\"w.whl\"", "[\"setuptools>=26\"]"}

loads(text) ==
    CASE text = "null" -> PyNone
      [] text = "false" -> PyFalse
      [] text = "true" -> PyTrue
      [] text = "0" -> PyInt("0")
      [] text = "[]" -> PyList("")
      [] text = "\"\"" -> PyStr("")
      [] text = "\"T\"" -> PyStr("T")
      [] text = "\"E\"" -> PyStr("E")
      [] text = "\"w.whl\"" -> PyStr("w.whl")
      [] text = "[\"setuptools>=26\"]" -> PyList("setuptools>=26")

(***************************************************************************)
(* output.json.  A document gives each field its JSON text, or Absent; a   *)
(* scratch directory without the file holds NoFile.                        *)
(***************************************************************************)
Absent == "<absent>"
OutKeys ==
    {"unsupported", "no_backend", "backend_invalid", "traceback",
     "backend_error", "return_val"}

Doc(fields) == [k \in OutKeys |-> IF k \in DOMAIN fields THEN fields[k] ELSE Absent]

NoFile == [k \in OutKeys |-> "<no file>"]

SuccessDocs ==
    {Doc([return_val |-> x]) :
        x \in {"null", "false", "0", "[]", "\"\"", "\"w.whl\"",
               "[\"setuptools>=26\"]"}}

FailureDocs ==
    {Doc([unsupported |-> "true", traceback |-> "\"T\""]),
     Doc([unsupported |-> "true"]),
     Doc([no_backend |-> "true", traceback |-> "\"T\""]),
     Doc([backend_invalid |-> "true", backend_error |-> "\"E\""]),
     Doc([unsupported |-> "true", no_backend |-> "true",
          backend_invalid |-> "true", traceback |-> "\"T\"",
          backend_error |-> "\"E\"", return_val |-> "\"w.whl\""]),
     Doc([no_backend |-> "true", backend_invalid |-> "true",
          traceback |-> "\"T\"", return_val |-> "0"])}

OddDocs ==
    {Doc([unsupported |-> "false", no_backend |-> "null",
          return_val |-> "\"w.whl\""]),
     Doc([traceback |-> "\"T\""])}

Docs == SuccessDocs \cup FailureDocs \cup OddDocs \cup {NoFile}

\* dict.get(key, default) on the parsed document
get(data, key, default) ==
    IF data[key] = Absent THEN default ELSE loads(data[key])

(***************************************************************************)
(* Exceptions and the outcome of a call.                                   *)
(***************************************************************************)
Exc(type) ==
    [type |-> type, traceback |-> PyNone, message |-> PyNone,
     backend_name |-> "", backend_path |-> NoneList]

UnsupportedOperation(traceback) ==
    [Exc("UnsupportedOperation") EXCEPT !.traceback = traceback]

BackendUnavailable(traceback) ==
    [Exc("BackendUnavailable") EXCEPT !.traceback = traceback]

BackendInvalid(backend_name, backend_path, message) ==
    [Exc("BackendInvalid") EXCEPT !.backend_name = backend_name,
                                  !.backend_path = backend_path,
                                  !.message = message]

NoResult == [kind |-> "none", value |-> PyNone, exc |-> Exc("")]
Returned(v) == [kind |-> "return", value |-> v, exc |-> Exc("")]
Raised(e) == [kind |-> "raise", value |-> PyNone, exc |-> e]

\* classify returning the value only when it is true, None otherwise
classify_truthy(self, data) ==
    IF truthy(get(data, "unsupported", PyNone))
    THEN Raised(UnsupportedOperation(get(data, "traceback", PyStr(""))))
    ELSE IF truthy(get(data, "no_backend", PyNone))
    THEN Raised(BackendUnavailable(get(data, "traceback", PyStr(""))))
    ELSE IF truthy(get(data, "backend_invalid", PyNone))
    THEN Raised(BackendInvalid(self.build_backend, self.backend_path,
                               get(data, "backend_error", PyStr(""))))
    ELSE IF truthy(get(data, "return_val", PyNone))
    THEN Returned(loads(data["return_val"]))
    ELSE Returned(PyNone)

\* classify taking the text of UnsupportedOperation from the wrong field
classify_wrong_field(self, data) ==
    IF truthy(get(data, "unsupported", PyNone))
    THEN Raised(UnsupportedOperation(get(data, "backend_error", PyStr(""))))
    ELSE IF truthy(get(data, "no_backend", PyNone))
    THEN Raised(BackendUnavailable(get(data, "traceback", PyStr(""))))
    ELSE IF truthy(get(data, "backend_invalid", PyNone))
    THEN Raised(BackendInvalid(self.build_backend, self.backend_path,
                               get(data, "backend_error", PyStr(""))))
    ELSE IF data["return_val"] = Absent
    THEN Raised(Exc("KeyError"))
    ELSE Returned(loads(data["return_val"]))

\* classify testing no_backend before unsupported
classify_reordered(self, data) ==
    IF truthy(get(data, "no_backend", PyNone))
    THEN Raised(BackendUnavailable(get(data, "traceback", PyStr(""))))
    ELSE IF truthy(get(data, "unsupported", PyNone))
    THEN Raised(UnsupportedOperation(get(data, "traceback", PyStr(""))))
    ELSE IF truthy(get(data, "backend_invalid", PyNone))
    THEN Raised(BackendInvalid(self.build_backend, self.backend_path,
                               get(data, "backend_error", PyStr(""))))
    ELSE IF data["return_val"] = Absent
    THEN Raised(Exc("KeyError"))
    ELSE Returned(loads(data["return_val"]))

\* classify with data.get('return_val'): None when the field is missing
classify_get(self, data) ==
    IF truthy(get(data, "unsupported", PyNone))
    THEN Raised(UnsupportedOperation(get(data, "traceback", PyStr(""))))
    ELSE IF truthy(get(data, "no_backend", PyNone))
    THEN Raised(BackendUnavailable(get(data, "traceback", PyStr(""))))
    ELSE IF truthy(get(data, "backend_invalid", PyNone))
    THEN Raised(BackendInvalid(self.build_backend, self.backend_path,
                               get(data, "backend_error", PyStr(""))))
    ELSE Returned(get(data, "return_val", PyNone))

\* lines 209-220 of _call_hook, after output.json was parsed into data
classify(self, data) ==
    IF truthy(get(data, "unsupported", PyNone))
    THEN Raised(UnsupportedOperation(get(data, "traceback", PyStr(""))))
    ELSE IF truthy(get(data, "no_backend", PyNone))
    THEN Raised(BackendUnavailable(get(data, "traceback", PyStr(""))))
    ELSE IF truthy(get(data, "backend_invalid", PyNone))
    THEN Raised(BackendInvalid(self.build_backend, self.backend_path,
                               get(data, "backend_error", PyStr(""))))
    ELSE IF data["return_val"] = Absent
    THEN Raised(Exc("KeyError"))
    ELSE Returned(loads(data["return_val"]))

\* compat.read_json: the parsed document, or the error of opening a missing file
read_json(file) ==
    IF file = NoFile THEN [exc |-> Exc("IOError"), data |-> NoFile]
    ELSE [exc |-> Exc(""), data |-> file]

(***************************************************************************)
(* The five hook methods: each gives _call_hook a hook name and kwargs.    *)
(* Cwd is the working directory of the calling process.                    *)
(***************************************************************************)
Cwd == <<"/", "w">>

get_requires_for_build_wheel(config_settings) ==
    [hook |-> "get_requires_for_build_wheel",
     kwargs |-> [config_settings |-> config_settings]]

prepare_metadata_for_build_wheel(metadata_directory, config_settings) ==
    [hook |-> "prepare_metadata_for_build_wheel",
     kwargs |-> [metadata_directory |-> abspath(Cwd, metadata_directory),
                 config_settings |-> config_settings]]

build_wheel(wheel_directory, config_settings, metadata_directory) ==
    [hook |-> "build_wheel",
     kwargs |-> [wheel_directory |-> abspath(Cwd, wheel_directory),
                 config_settings |-> config_settings,
                 metadata_directory |->
                     IF metadata_directory = PyNone THEN PyNone
                     ELSE abspath(Cwd, metadata_directory)]]

get_requires_for_build_sdist(config_settings) ==
    [hook |-> "get_requires_for_build_sdist",
     kwargs |-> [config_settings |-> config_settings]]

build_sdist(sdist_directory, config_settings) ==
    [hook |-> "build_sdist",
     kwargs |-> [sdist_directory |-> abspath(Cwd, sdist_directory),
                 config_settings |-> config_settings]]

\* the method calls a client makes
OutDir == <<"o">>
HookCalls ==
    {get_requires_for_build_wheel(PyNone),
     prepare_metadata_for_build_wheel(OutDir, PyNone),
     build_wheel(OutDir, PyNone, PyNone),
     get_requires_for_build_sdist(PyNone),
     build_sdist(OutDir, PyNone)}

HookNames == {c.hook : c \in HookCalls}

(***************************************************************************)
(* The state.                                                              *)
(***************************************************************************)
\* deepest nesting of subprocess_runner scopes in one thread
MaxDepth == 2
\* names mkdtemp can draw
NumDirNames == 2

Threads == {"t1", "t2"}
Inst == {"hooks1", "hooks2"}
CustomRunners == {"runner_A", "runner_B"}
Runners == {default_subprocess_runner} \cup CustomRunners

DirPool == <<"/tmp/a", "/tmp/b", "/tmp/c", "/tmp/d">>
DirNames == {DirPool[k] : k \in 1..NumDirNames}

sys_executable == "python"
_in_proc_script == "_in_process.py"
pathsep == <<":">>

VARIABLES
    pathIn,     \* inputs of the path validator and constructor under test
    pathOut,    \* their results
    hooks,      \* the Pep517HookCaller instances
    stack,      \* per thread: its open subprocess_runner scopes, innermost last
    pc,         \* per thread: where its hook call stands
    call,       \* per thread: the locals of its hook call
    fs,         \* the scratch directories on disk, by name
    exited,     \* history: per instance, the runner that was current before
                \* the scope that exited normally last ("" when there is none,
                \* when it had inner scopes, or when a scope was entered since)
    os_environ  \* os.environ, the environment of the calling process

vars == <<pathIn, pathOut, hooks, stack, pc, call, fs, exited, os_environ>>

NoDir ==
    [exists |-> FALSE, creator |-> "", hasInput |-> FALSE,
     input |-> [kwargs |-> [config_settings |-> PyNone]], output |-> NoFile]

\* no environment: the child of this call was not launched by check_call
NoEnv == [k \in {} |-> ""]

NoCall ==
    [inst |-> "", hook |-> "", kwargs |-> [config_settings |-> PyNone],
     extra_environ |-> [PEP517_BUILD_BACKEND |-> ""], td |-> "",
     invoked |-> <<>>, argv |-> <<>>, cwd |-> <<>>, wrote |-> NoFile,
     didRead |-> FALSE, data |-> NoFile, runnerExc |-> Exc(""),
     result |-> NoResult, touched |-> {}, env |-> NoEnv]

NotChecked == [exc |-> "<not run>", val |-> <<>>]
NotConstructed == [exc |-> "<not run>", obj |-> NoObject]

\* the instances a session starts with: hooks1 has a backend path, hooks2 none
Constructed ==
    [i \in Inst |->
        HookCallerInit(Cwd, <<"/", "p">>, "be",
                       IF i = "hooks1" THEN << <<"p">>, <<".", "/", "p", "/", "p">> >>
                       ELSE NoneList).obj]

\* the environment the calling process was started with
ParentEnviron == [HOME |-> "/root", PATH |-> "/usr/bin"]

InitMachine ==
    /\ stack = [t \in Threads |-> <<>>]
    /\ pc = [t \in Threads |-> "idle"]
    /\ call = [t \in Threads |-> NoCall]
    /\ fs = [d \in DirNames |-> NoDir]
    /\ exited = [i \in Inst |-> ""]

Init ==
    /\ pathIn = [cwd |-> Cwd, source_dir |-> <<"/", "p">>, requested |-> <<>>,
                 backend_path |-> NoneList]
    /\ pathOut = [check |-> NotChecked, construct |-> NotConstructed]
    /\ hooks = Constructed
    /\ InitMachine
    /\ os_environ = ParentEnviron

(***************************************************************************)
(* _call_hook, one action per step that other threads can observe.         *)
(***************************************************************************)
\* mkdtemp drawing a name without looking at the names in use
mkdtemp_any(files) == DirNames

\* tempfile.mkdtemp creates a directory under a name that is not in use
mkdtemp(files) == {d \in DirNames : ~files[d].exists}

\* extraEnviron setting PEP517_BACKEND_PATH always, empty without a backend path
extraEnviron_always(self) ==
    [PEP517_BUILD_BACKEND |-> self.build_backend,
     PEP517_BACKEND_PATH |->
         IF self.backend_path # NoneList /\ self.backend_path # <<>>
         THEN LET RECURSIVE joined(_)
                  joined(paths) ==
                      IF Len(paths) = 1 THEN paths[1]
                      ELSE paths[1] \o pathsep \o joined(Tail(paths))
              IN  joined(self.backend_path)
         ELSE <<>>]

\* lines 185-195: the environment handed to the runner
extraEnviron(self) ==
    IF self.backend_path # NoneList /\ self.backend_path # <<>>
    THEN [PEP517_BUILD_BACKEND |-> self.build_backend,
          PEP517_BACKEND_PATH |->
              LET RECURSIVE joined(_)
                  joined(paths) ==
                      IF Len(paths) = 1 THEN paths[1]
                      ELSE paths[1] \o pathsep \o joined(Tail(paths))
              IN  joined(self.backend_path)]
    ELSE [PEP517_BUILD_BACKEND |-> self.build_backend]

\* a hook method is entered: the environment is built and tempdir() entered
Mkdtemp(t, i, c, d) ==
    /\ pc[t] = "idle"
    /\ d \in mkdtemp(fs)
    /\ call' = [call EXCEPT ![t] =
                    [NoCall EXCEPT !.inst = i, !.hook = c.hook,
                                   !.kwargs = c.kwargs,
                                   !.extra_environ = extraEnviron(hooks[i]),
                                   !.td = d]]
    /\ fs' = [fs EXCEPT ![d] = [NoDir EXCEPT !.exists = TRUE, !.creator = t]]
    /\ pc' = [pc EXCEPT ![t] = "tempdir"]
    /\ UNCHANGED <<pathIn, pathOut, hooks, stack, exited, os_environ>>

\* compat.write_json(hook_input, pjoin(td, 'input.json'))
WriteInput(t) ==
    /\ pc[t] = "tempdir"
    /\ fs' = [fs EXCEPT ![call[t].td].hasInput = TRUE,
                        ![call[t].td].input = [kwargs |-> call[t].kwargs]]
    /\ pc' = [pc EXCEPT ![t] = "written"]
    /\ UNCHANGED <<pathIn, pathOut, hooks, stack, call, exited, os_environ>>

\* dict.update: the entries of extra added to env, replacing those with its keys
update(env, extra) ==
    [k \in DOMAIN env \cup DOMAIN extra |->
        IF k \in DOMAIN extra THEN extra[k] ELSE env[k]]

\* default_subprocess_runner updating os.environ itself, without the copy
runnerEnviron_in_place(runner, environ, extra_environ) ==
    IF runner # default_subprocess_runner
    THEN [environ |-> environ, env |-> NoEnv]
    ELSE LET env == IF DOMAIN extra_environ # {}
                    THEN update(environ, extra_environ) ELSE environ
         IN  [environ |-> env, env |-> env]

\* lines 45-49: what calling `runner` does to os.environ and which env the
\* child gets from check_call.  default_subprocess_runner copies os.environ
\* and updates the copy; a runner a frontend installed launches the child its
\* own way (NoEnv) and is taken to leave os.environ alone.
runnerEnviron(runner, environ, extra_environ) ==
    IF runner # default_subprocess_runner
    THEN [environ |-> environ, env |-> NoEnv]
    ELSE LET env == IF DOMAIN extra_environ # {}
                    THEN update(environ, extra_environ) ELSE environ
         IN  [environ |-> environ, env |-> env]

\* InvokeRunner calling default_subprocess_runner whatever runner is installed
InvokeRunner_default(t) ==
    /\ pc[t] = "written"
    /\ call' = [call EXCEPT
                    ![t].invoked = Append(@, default_subprocess_runner),
                    ![t].argv = <<sys_executable, _in_proc_script,
                                  call[t].hook, call[t].td>>,
                    ![t].cwd = hooks[call[t].inst].source_dir,
                    ![t].env = runnerEnviron(default_subprocess_runner, os_environ,
                                             call[t].extra_environ).env]
    /\ pc' = [pc EXCEPT ![t] = "running"]
    /\ os_environ' = runnerEnviron(default_subprocess_runner, os_environ,
                                   call[t].extra_environ).environ
    /\ UNCHANGED <<pathIn, pathOut, hooks, stack, fs, exited>>

\* InvokeRunner with the override kept per thread: inside a scope of its own
\* on the instance, a thread calls that scope's runner
InvokeRunner_own(t) ==
    /\ pc[t] = "written"
    /\ LET own == {k \in DOMAIN stack[t] : stack[t][k].inst = call[t].inst}
           r == IF own = {} THEN hooks[call[t].inst]._subprocess_runner
                ELSE stack[t][CHOOSE k \in own : \A j \in own : j <= k].runner
           e == runnerEnviron(r, os_environ, call[t].extra_environ)
       IN  /\ call' = [call EXCEPT
                           ![t].invoked = Append(@, r),
                           ![t].argv = <<sys_executable, _in_proc_script,
                                         call[t].hook, call[t].td>>,
                           ![t].cwd = hooks[call[t].inst].source_dir,
                           ![t].env = e.env]
           /\ os_environ' = e.environ
    /\ pc' = [pc EXCEPT ![t] = "running"]
    /\ UNCHANGED <<pathIn, pathOut, hooks, stack, fs, exited>>

\* self._subprocess_runner(...) is looked up and called
InvokeRunner(t) ==
    /\ pc[t] = "written"
    /\ call' = [call EXCEPT
                    ![t].invoked = Append(@, hooks[call[t].inst]._subprocess_runner),
                    ![t].argv = <<sys_executable, _in_proc_script,
                                  call[t].hook, call[t].td>>,
                    ![t].cwd = hooks[call[t].inst].source_dir,
                    ![t].env = runnerEnviron(hooks[call[t].inst]._subprocess_runner, os_environ,
                                             call[t].extra_environ).env]
    /\ pc' = [pc EXCEPT ![t] = "running"]
    /\ os_environ' = runnerEnviron(hooks[call[t].inst]._subprocess_runner, os_environ,
                                   call[t].extra_environ).environ
    /\ UNCHANGED <<pathIn, pathOut, hooks, stack, fs, exited>>

\* what the child process leaves in the scratch directory named in its argv
childWrites(files, argv, doc) ==
    IF doc # NoFile /\ files[argv[4]].exists
    THEN [files EXCEPT ![argv[4]].output = doc]
    ELSE files

\* the runner returns: the child exited with status 0
RunnerReturns(t, doc) ==
    /\ pc[t] = "running"
    /\ fs' = childWrites(fs, call[t].argv, doc)
    /\ call' = [call EXCEPT ![t].wrote = doc]
    /\ pc' = [pc EXCEPT ![t] = "ran"]
    /\ UNCHANGED <<pathIn, pathOut, hooks, stack, exited, os_environ>>

\* check_call raises for a non-zero exit or a failed launch; a runner a
\* frontend installed raises what it likes
RunnerErrors(runner) ==
    IF runner = default_subprocess_runner
    THEN {Exc("CalledProcessError"), Exc("OSError")}
    ELSE {Exc("CalledProcessError"), Exc("OSError"), Exc("RunnerError")}

\* the with-block of tempdir() is left by an exception: the finally clause is next
leaveRaising(c, e) == [c EXCEPT !.result = Raised(e)]

\* RunnerRaises with the runner's error swallowed: the call goes on to read
RunnerRaises_swallowed(t, e, doc) ==
    /\ pc[t] = "running"
    /\ e \in RunnerErrors(call[t].invoked[Len(call[t].invoked)])
    /\ fs' = childWrites(fs, call[t].argv, doc)
    /\ call' = [call EXCEPT ![t].wrote = doc, ![t].runnerExc = e]
    /\ pc' = [pc EXCEPT ![t] = "ran"]
    /\ UNCHANGED <<pathIn, pathOut, hooks, stack, exited, os_environ>>

\* RunnerRaises followed by another attempt: the runner is called again
RunnerRaises_retry(t, e, doc) ==
    /\ pc[t] = "running"
    /\ e \in RunnerErrors(call[t].invoked[Len(call[t].invoked)])
    /\ fs' = childWrites(fs, call[t].argv, doc)
    /\ call' = [call EXCEPT ![t].wrote = doc]
    /\ pc' = [pc EXCEPT ![t] = IF Len(call[t].invoked) < 2 THEN "written" ELSE "ran"]
    /\ UNCHANGED <<pathIn, pathOut, hooks, stack, exited, os_environ>>

\* the runner raises; the child may have written a document before failing
RunnerRaises(t, e, doc) ==
    /\ pc[t] = "running"
    /\ e \in RunnerErrors(call[t].invoked[Len(call[t].invoked)])
    /\ fs' = childWrites(fs, call[t].argv, doc)
    /\ call' = [call EXCEPT ![t] = leaveRaising([@ EXCEPT !.wrote = doc,
                                                         !.runnerExc = e], e)]
    /\ pc' = [pc EXCEPT ![t] = "finally"]
    /\ UNCHANGED <<pathIn, pathOut, hooks, stack, exited, os_environ>>

\* ReadOutput waiting for output.json: while the file is missing the call
\* stays where it is
ReadOutput_waiting(t) ==
    /\ pc[t] = "ran"
    /\ LET td == call[t].td
           r == read_json(IF fs[td].exists THEN fs[td].output ELSE NoFile)
           c == [call[t] EXCEPT !.didRead = TRUE,
                                !.touched = @ \cup {fs[td].creator}]
       IN  IF r.exc # Exc("")
           THEN /\ call' = call
                /\ pc' = pc
           ELSE /\ call' = [call EXCEPT ![t] = [c EXCEPT !.data = r.data]]
                /\ pc' = [pc EXCEPT ![t] = "read"]
    /\ UNCHANGED <<pathIn, pathOut, hooks, stack, fs, exited, os_environ>>

\* data = compat.read_json(pjoin(td, 'output.json'))
ReadOutput(t) ==
    /\ pc[t] = "ran"
    /\ LET td == call[t].td
           r == read_json(IF fs[td].exists THEN fs[td].output ELSE NoFile)
           c == [call[t] EXCEPT !.didRead = TRUE,
                                !.touched = @ \cup {fs[td].creator}]
       IN  IF r.exc # Exc("")
           THEN /\ call' = [call EXCEPT ![t] = leaveRaising(c, r.exc)]
                /\ pc' = [pc EXCEPT ![t] = "finally"]
           ELSE /\ call' = [call EXCEPT ![t] = [c EXCEPT !.data = r.data]]
                /\ pc' = [pc EXCEPT ![t] = "read"]
    /\ UNCHANGED <<pathIn, pathOut, hooks, stack, fs, exited, os_environ>>

\* lines 210-220: raise one of the three errors, or return data['return_val']
Classify(t) ==
    /\ pc[t] = "read"
    /\ call' = [call EXCEPT ![t].result =
                    classify(hooks[call[t].inst], call[t].data)]
    /\ pc' = [pc EXCEPT ![t] = "finally"]
    /\ UNCHANGED <<pathIn, pathOut, hooks, stack, fs, exited, os_environ>>

\* tempdir without try/finally: the directory is removed only after a return
Rmtree_no_finally(t) ==
    /\ pc[t] = "finally"
    /\ fs' = IF call[t].result.kind = "return"
             THEN [fs EXCEPT ![call[t].td] = NoDir] ELSE fs
    /\ call' = call
    /\ pc' = [pc EXCEPT ![t] =
                  IF call[t].result.kind = "return" THEN "returned" ELSE "raised"]
    /\ UNCHANGED <<pathIn, pathOut, hooks, stack, exited, os_environ>>

\* tempdir's finally clause: shutil.rmtree(td); then the call returns or raises
Rmtree(t) ==
    /\ pc[t] = "finally"
    /\ LET td == call[t].td
       IN  IF fs[td].exists
           THEN /\ fs' = [fs EXCEPT ![td] = NoDir]
                /\ call' = [call EXCEPT ![t].touched = @ \cup {fs[td].creator}]
                /\ pc' = [pc EXCEPT ![t] =
                              IF call[t].result.kind = "return"
                              THEN "returned" ELSE "raised"]
           ELSE /\ fs' = fs
                /\ call' = [call EXCEPT ![t].result = Raised(Exc("OSError"))]
                /\ pc' = [pc EXCEPT ![t] = "raised"]
    /\ UNCHANGED <<pathIn, pathOut, hooks, stack, exited, os_environ>>

\* the caller of the hook method takes the returned value
TakeResult(t) ==
    /\ pc[t] = "returned"
    /\ pc' = [pc EXCEPT ![t] = "idle"]
    /\ call' = [call EXCEPT ![t] = NoCall]
    /\ UNCHANGED <<pathIn, pathOut, hooks, stack, fs, exited, os_environ>>

\* the caller handles the exception where the thread now stands
Catch(t) ==
    /\ pc[t] = "raised"
    /\ pc' = [pc EXCEPT ![t] = "idle"]
    /\ call' = [call EXCEPT ![t] = NoCall]
    /\ UNCHANGED <<pathIn, pathOut, hooks, stack, fs, exited, os_environ>>

(***************************************************************************)
(* subprocess_runner, the scoped override.  A frame of a thread's stack is *)
(* one suspended generator: its self, its runner argument and its prev.    *)
(* Two fields are history: `before` is the instance's runner when the      *)
(* scope was entered, `inner` tells that a scope on the same instance was  *)
(* entered inside this one.                                                *)
(***************************************************************************)
\* EnterScope with the runner kept on the class: every instance gets it
EnterScope_shared(t, i, r, nested) ==
    /\ pc[t] = "idle"
    /\ IF nested THEN Len(stack[t]) < MaxDepth ELSE stack[t] = <<>>
    /\ stack' = [stack EXCEPT ![t] =
                     Append([k \in DOMAIN @ |->
                                IF @[k].inst = i THEN [@[k] EXCEPT !.inner = TRUE]
                                ELSE @[k]],
                            [inst |-> i, runner |-> r,
                             prev |-> hooks[i]._subprocess_runner,
                             inner |-> FALSE,
                             before |-> hooks[i]._subprocess_runner])]
    /\ hooks' = [j \in Inst |-> [hooks[j] EXCEPT !._subprocess_runner = r]]
    /\ exited' = [exited EXCEPT ![i] = ""]
    /\ UNCHANGED <<pathIn, pathOut, pc, call, fs, os_environ>>

\* with hooks.subprocess_runner(runner): lines 97-99, up to the yield
EnterScope(t, i, r, nested) ==
    /\ pc[t] = "idle"
    /\ IF nested THEN Len(stack[t]) < MaxDepth ELSE stack[t] = <<>>
    /\ stack' = [stack EXCEPT ![t] =
                     Append([k \in DOMAIN @ |->
                                IF @[k].inst = i THEN [@[k] EXCEPT !.inner = TRUE]
                                ELSE @[k]],
                            [inst |-> i, runner |-> r,
                             prev |-> hooks[i]._subprocess_runner,
                             inner |-> FALSE,
                             before |-> hooks[i]._subprocess_runner])]
    /\ hooks' = [hooks EXCEPT ![i]._subprocess_runner = r]
    /\ exited' = [exited EXCEPT ![i] = ""]
    /\ UNCHANGED <<pathIn, pathOut, pc, call, fs, os_environ>>

\* the generator putting back the default runner instead of prev
resumeAfterYield_default(h, frame) ==
    [h EXCEPT ![frame.inst]._subprocess_runner = default_subprocess_runner]

\* what the generator does when the with-body ends normally: line 100
resumeAfterYield(h, frame) ==
    [h EXCEPT ![frame.inst]._subprocess_runner = frame.prev]

\* what the generator does when the with-body raises: the exception is thrown
\* in at the yield of line 99, nothing catches it, line 100 does not run
throwAtYield(h, frame) == h

ExitScope(t) ==
    /\ pc[t] = "idle"
    /\ stack[t] # <<>>
    /\ hooks' = resumeAfterYield(hooks, stack[t][Len(stack[t])])
    /\ stack' = [stack EXCEPT ![t] = SubSeq(@, 1, Len(@) - 1)]
    /\ LET frame == stack[t][Len(stack[t])]
       IN  exited' = [exited EXCEPT ![frame.inst] =
                          IF frame.inner THEN "" ELSE frame.before]
    /\ UNCHANGED <<pathIn, pathOut, pc, call, fs, os_environ>>

\* an exception leaves the innermost with-block and keeps propagating
Unwind(t) ==
    /\ pc[t] = "raised"
    /\ stack[t] # <<>>
    /\ hooks' = throwAtYield(hooks, stack[t][Len(stack[t])])
    /\ stack' = [stack EXCEPT ![t] = SubSeq(@, 1, Len(@) - 1)]
    /\ UNCHANGED <<pathIn, pathOut, pc, call, fs, exited, os_environ>>

(***************************************************************************)
(* Specifications.  NextOver runs the threads T on the instances I with    *)
(* the method calls C, the child outputs D and the runner errors E; I[t]   *)
(* are the instances thread t uses and R[t] the runners it installs, in    *)
(* nested scopes when `nested`.                                            *)
(***************************************************************************)
\* what a child that fails may have left behind
PartialDocs == {NoFile, Doc([return_val |-> "\"w.whl\""])}

AllErrors == RunnerErrors("")

NextOver(T, I, C, D, E, R, nested) ==
    \E t \in T :
        \/ \E i \in I[t], c \in C, d \in DirNames : Mkdtemp(t, i, c, d)
        \/ WriteInput(t)
        \/ InvokeRunner(t)
        \/ \E doc \in D : RunnerReturns(t, doc)
        \/ \E e \in E, doc \in PartialDocs \cap D : RunnerRaises(t, e, doc)
        \/ ReadOutput(t)
        \/ Classify(t)
        \/ Rmtree(t)
        \/ TakeResult(t)
        \/ Catch(t)
        \/ \E i \in I[t], r \in R[t] : EnterScope(t, i, r, nested)
        \/ ExitScope(t)
        \/ Unwind(t)

\* Spec: one thread, every method and every child output; scopes are not nested
Next ==
    NextOver({"t1"}, [t \in Threads |-> Inst], HookCalls, Docs, AllErrors,
             [t \in Threads |-> Runners], FALSE)

Spec == Init /\ [][Next]_vars

\* SpecScope: one thread, one instance, nested scopes, a sample of the outputs
ScopeDocs ==
    {NoFile, Doc([return_val |-> "\"w.whl\""]),
     Doc([unsupported |-> "true", traceback |-> "\"T\""])}

NextScope ==
    NextOver({"t1"}, [t \in Threads |-> {"hooks1"}],
             {build_sdist(OutDir, PyNone)}, ScopeDocs,
             AllErrors, [t \in Threads |-> Runners], TRUE)

SpecScope == Init /\ [][NextScope]_vars

\* SpecConc: two threads that share hooks1, one of them also on hooks2; each
\* thread has a runner of its own and at most one open scope
ConcDocs == {Doc([return_val |-> "\"w.whl\""])}

ThreadInst == [t \in Threads |-> IF t = "t1" THEN Inst ELSE {"hooks1"}]

ThreadRunner == [t \in Threads |-> IF t = "t1" THEN {"runner_A"} ELSE {"runner_B"}]

NextConc ==
    NextOver(Threads, ThreadInst, {build_sdist(OutDir, PyNone)}, ConcDocs,
             {Exc("CalledProcessError")}, ThreadRunner, FALSE)

SpecConc == Init /\ [][NextConc]_vars

\* SpecRace: two threads, each with a runner of its own, open and close scopes
\* on both instances and make calls inside them; every call succeeds, so no
\* scope is left by an exception
NextRace ==
    \E t \in Threads :
        \/ \E d \in DirNames :
               /\ stack[t] # <<>>
               /\ Mkdtemp(t, stack[t][1].inst, build_sdist(OutDir, PyNone), d)
        \/ WriteInput(t)
        \/ InvokeRunner(t)
        \/ \E doc \in ConcDocs : RunnerReturns(t, doc)
        \/ ReadOutput(t)
        \/ Classify(t)
        \/ Rmtree(t)
        \/ TakeResult(t)
        \/ \E i \in Inst, r \in ThreadRunner[t] : EnterScope(t, i, r, FALSE)
        \/ ExitScope(t)

SpecRace == Init /\ [][NextRace]_vars

\* SpecLive: one thread calls two of the hooks with every child output and
\* every runner error.  The statements of _call_hook are run by the calling
\* thread one after the other, so each of its steps, once it is the next, is
\* taken; the runner's return is the child's doing and may never come, and the
\* caller may never start a call or open a scope.
NextLive ==
    NextOver({"t1"}, [t \in Threads |-> Inst],
             {build_sdist(OutDir, PyNone), get_requires_for_build_wheel(PyNone)},
             Docs, AllErrors,
             [t \in Threads |-> {default_subprocess_runner, "runner_A"}], FALSE)

Fairness ==
    /\ WF_vars(WriteInput("t1"))
    /\ WF_vars(InvokeRunner("t1"))
    /\ WF_vars(ReadOutput("t1"))
    /\ WF_vars(Classify("t1"))
    /\ WF_vars(Rmtree("t1"))

SpecLive == Init /\ [][NextLive]_vars /\ Fairness

\* SpecEnv: the process starts with one of several environments; the two
\* threads call build_sdist under the default runner, one call after another
ParentEnvirons ==
    {ParentEnviron,
     [HOME |-> "/root", PEP517_BUILD_BACKEND |-> "old"],
     [HOME |-> "/root", PEP517_BUILD_BACKEND |-> "old",
      PEP517_BACKEND_PATH |-> <<"/", "o">>]}

InitEnv ==
    /\ pathIn = [cwd |-> Cwd, source_dir |-> <<"/", "p">>, requested |-> <<>>,
                 backend_path |-> NoneList]
    /\ pathOut = [check |-> NotChecked, construct |-> NotConstructed]
    /\ hooks = Constructed
    /\ InitMachine
    /\ os_environ \in ParentEnvirons

NextEnv ==
    \E t \in Threads :
        \/ \E i \in Inst, d \in DirNames :
               /\ \A u \in Threads \ {t} : pc[u] \in {"idle", "returned", "raised"}
               /\ Mkdtemp(t, i, build_sdist(OutDir, PyNone), d)
        \/ WriteInput(t)
        \/ InvokeRunner(t)
        \/ \E doc \in ScopeDocs : RunnerReturns(t, doc)
        \/ \E doc \in PartialDocs : RunnerRaises(t, Exc("CalledProcessError"), doc)
        \/ ReadOutput(t)
        \/ Classify(t)
        \/ Rmtree(t)
        \/ TakeResult(t)
        \/ Catch(t)

SpecEnv == InitEnv /\ [][NextEnv]_vars

(***************************************************************************)
(* SpecPath: the path validator and the constructor on drawn inputs.       *)
(***************************************************************************)
PathInputs ==
    {[cwd |-> w, source_dir |-> sd, requested |-> c, backend_path |-> bp] :
        w \in Cwds, sd \in SourceDirs, c \in Candidates, bp \in {NoneList}}
    \cup
    UNION {{[cwd |-> Cwd, source_dir |-> sd, requested |-> c, backend_path |-> bp] :
               sd \in {<<"/", "p">>}, bp \in BackendPaths(c)} :
           c \in Candidates}

InitPath ==
    /\ pathIn \in PathInputs
    /\ pathOut = [check |-> NotChecked, construct |-> NotConstructed]
    /\ hooks = Constructed
    /\ InitMachine
    /\ os_environ = ParentEnviron

\* norm_and_check(source_tree, requested) is called
NormAndCheck ==
    /\ pathOut.check = NotChecked
    /\ pathOut' = [pathOut EXCEPT !.check =
                       norm_and_check(pathIn.cwd, pathIn.source_dir,
                                      pathIn.requested)]
    /\ UNCHANGED <<pathIn, hooks, stack, pc, call, fs, exited, os_environ>>

\* Pep517HookCaller(source_dir, build_backend, backend_path) is called
Construct ==
    /\ pathOut.construct = NotConstructed
    /\ pathOut' = [pathOut EXCEPT !.construct =
                       HookCallerInit(pathIn.cwd, pathIn.source_dir, "be",
                                      pathIn.backend_path)]
    /\ UNCHANGED <<pathIn, hooks, stack, pc, call, fs, exited, os_environ>>

NextPath == NormAndCheck \/ Construct

SpecPath == InitPath /\ [][NextPath]_vars

(***************************************************************************)
(* Claims about the path validator and the constructor (SpecPath).         *)
(* Containment is decided on path segments, not on characters: a path is   *)
(* the list of its names, a candidate is walked name by name from root.    *)
(***************************************************************************)
Segments(path) == SelectSeq(split(path), LAMBDA seg : seg # <<>>)

RECURSIVE walk(_, _)
walk(at, names) ==
    IF names = <<>> THEN at
    ELSE LET name == Head(names)
         IN  IF name = <<>> \/ name = <<".">> THEN walk(at, Tail(names))
             ELSE IF name = DotDot
             THEN walk(IF at = <<>> THEN at ELSE SubSeq(at, 1, Len(at) - 1),
                       Tail(names))
             ELSE walk(Append(at, name), Tail(names))

IsPrefix(a, b) == Len(a) <= Len(b) /\ SubSeq(b, 1, Len(a)) = a

RootOf(in) == abspath(in.cwd, in.source_dir)

\* where the candidate leads, walked from root
Resolved(in, candidate) == walk(Segments(RootOf(in)), split(candidate))

\* the candidate leads to root or below it
Inside(in, candidate) == IsPrefix(Segments(RootOf(in)), Resolved(in, candidate))

WasChecked == pathOut.check # NotChecked
WasConstructed == pathOut.construct # NotConstructed

\* C3: norm_and_check fails for every relative candidate that leads neither to
\* root nor below it, a sibling whose name starts with root's name included.
C3_OutsideRejected ==
    (WasChecked /\ ~isabs(pathIn.requested) /\ ~Inside(pathIn, pathIn.requested))
        => pathOut.check.exc # NoExc

\* C4: for every relative candidate that leads to root or below it, '.' and '..'
\* names included, norm_and_check returns the absolute normalized join of root
\* and candidate, which is root or lies below root.
C4_InsideAccepted ==
    (WasChecked /\ ~isabs(pathIn.requested) /\ Inside(pathIn, pathIn.requested))
        => /\ pathOut.check.exc = NoExc
           /\ isabs(pathOut.check.val)
           /\ split(pathOut.check.val)[1] = <<>>
           /\ Segments(pathOut.check.val) = Resolved(pathIn, pathIn.requested)
           /\ \A k \in 1..Len(Segments(pathOut.check.val)) :
                  Segments(pathOut.check.val)[k] \notin {<<".">>, DotDot}
           /\ Len(pathOut.check.val) =
                  Len(joinSlash(Segments(pathOut.check.val)))
                  + initialSlashes(RootOf(pathIn))
           /\ IsPrefix(Segments(RootOf(pathIn)), Segments(pathOut.check.val))

\* a candidate with a '..' name that nets out at root itself was accepted
C4_Witness ==
    /\ WasChecked
    /\ pathOut.check.exc = NoExc
    /\ \E k \in 1..Len(split(pathIn.requested)) :
           split(pathIn.requested)[k] = DotDot
    /\ \E k \in 1..Len(split(pathIn.requested)) :
           split(pathIn.requested)[k] = <<"p">>
    /\ Segments(RootOf(pathIn)) # <<>>
    /\ pathOut.check.val = RootOf(pathIn)

\* an entry of a backend_path that the constructor must refuse
BadEntry(in, entry) == isabs(entry) \/ ~Inside(in, entry)

\* C5: constructing with a backend_path of which some entry is absolute or
\* leads outside the source directory fails, whatever the entry's position and
\* the other entries; no object results.
C5_BadEntryFailsConstruction ==
    (/\ WasConstructed
     /\ pathIn.backend_path # NoneList
     /\ \E k \in 1..Len(pathIn.backend_path) :
            BadEntry(pathIn, pathIn.backend_path[k]))
        => (pathOut.construct.exc # NoExc /\ pathOut.construct.obj = NoObject)

(***************************************************************************)
(* Claims about one hook call (Spec).                                      *)
(***************************************************************************)
\* the call of thread t has returned to, or raised into, its caller
Completed(t) == pc[t] \in {"returned", "raised"}

\* thread t is inside _call_hook
InFlight(t) == pc[t] \in {"tempdir", "written", "running", "ran", "read", "finally"}

\* the scratch directories thread t's calls created and that still exist
ScratchOf(t) == {d \in DirNames : fs[d].exists /\ fs[d].creator = t}

\* the runner of thread t's call returned, leaving document doc
RanWith(t, doc) == call[t].runnerExc = Exc("") /\ call[t].wrote = doc

\* none of the three failure markers of a document is set
NoMarker(doc) ==
    \A m \in {"unsupported", "no_backend", "backend_invalid"} :
        ~truthy(get(doc, m, PyNone))

\* C1: once a hook call has returned or raised, on whichever exit path, the
\* scratch directory created for it no longer exists; when no call is in
\* flight, no scratch directory exists.
C1_ScratchRemoved ==
    /\ \A t \in Threads : ~InFlight(t) => ScratchOf(t) = {}
    /\ (\A t \in Threads : ~InFlight(t)) => \A d \in DirNames : ~fs[d].exists

\* a call that raised BackendInvalid left no directory behind
C1_Witness ==
    /\ pc["t1"] = "raised"
    /\ call["t1"].result.exc.type = "BackendInvalid"
    /\ call["t1"].td # ""
    /\ \A d \in DirNames : ~fs[d].exists

\* C6: when the runner returns and output.json holds return_val X with no
\* failure marker set, the hook method returns exactly X, whatever the hook and
\* also when X is null, false, 0, [] or "", and raises nothing.
C6_ReturnsValue ==
    \A t \in Threads :
        (/\ Completed(t)
         /\ call[t].runnerExc = Exc("")
         /\ call[t].wrote # NoFile
         /\ call[t].wrote["return_val"] # Absent
         /\ NoMarker(call[t].wrote))
            => /\ pc[t] = "returned"
               /\ call[t].result = Returned(loads(call[t].wrote["return_val"]))

\* build_wheel returned false, a value that is not true
C6_Witness ==
    /\ pc["t1"] = "returned"
    /\ call["t1"].hook = "build_wheel"
    /\ call["t1"].wrote = Doc([return_val |-> "false"])
    /\ call["t1"].result.value = PyFalse

\* C7: when output.json is {"unsupported": true, "traceback": T}, the call
\* raises UnsupportedOperation whose traceback is T and returns no value.
C7_UnsupportedCarriesTraceback ==
    \A t \in Threads :
        (/\ Completed(t)
         /\ call[t].runnerExc = Exc("")
         /\ call[t].wrote # NoFile
         /\ call[t].wrote["unsupported"] = "true"
         /\ call[t].wrote["traceback"] # Absent)
            => /\ pc[t] = "raised"
               /\ call[t].result =
                      Raised(UnsupportedOperation(loads(call[t].wrote["traceback"])))

\* build_sdist raised UnsupportedOperation("T")
C7_Witness ==
    /\ pc["t1"] = "raised"
    /\ call["t1"].hook = "build_sdist"
    /\ call["t1"].wrote = Doc([unsupported |-> "true", traceback |-> "\"T\""])
    /\ call["t1"].result.exc.type = "UnsupportedOperation"
    /\ call["t1"].result.exc.traceback = PyStr("T")

\* C8: when the runner raises, that error reaches the caller unchanged,
\* output.json is never read, none of the three structured errors is raised,
\* no value is returned and the scratch directory is gone afterwards.
C8_RunnerErrorPropagates ==
    \A t \in Threads :
        call[t].runnerExc # Exc("")
            => /\ pc[t] \in {"finally", "raised"}
               /\ call[t].result = Raised(call[t].runnerExc)
               /\ ~call[t].didRead
               /\ call[t].data = NoFile
               /\ pc[t] = "raised" => ScratchOf(t) = {}

\* build_wheel under the default runner: the child exits non-zero, writes nothing
C8_Witness ==
    /\ pc["t1"] = "raised"
    /\ call["t1"].hook = "build_wheel"
    /\ call["t1"].invoked = <<default_subprocess_runner>>
    /\ call["t1"].wrote = NoFile
    /\ call["t1"].result.exc.type = "CalledProcessError"
    /\ \A d \in DirNames : ~fs[d].exists

(***************************************************************************)
(* Claims about the scoped runner override (SpecScope: one thread).        *)
(***************************************************************************)
\* thread t leaves its innermost scope in this step
LeavesScope(t) == stack[t] # <<>> /\ stack'[t] = SubSeq(stack[t], 1, Len(stack[t]) - 1)

\* C2: after a subprocess_runner scope exits, by the body completing or by the
\* body raising, the instance's runner is the one that was current when the
\* scope was entered.
C2_ScopeExitRestores ==
    [][\A t \in Threads :
           LeavesScope(t) =>
               LET frame == stack[t][Len(stack[t])]
               IN  hooks'[frame.inst]._subprocess_runner = frame.before]_vars

\* the innermost open scope of thread t on instance i: its index, 0 when none
InnermostOn(t, i) ==
    LET ks == {k \in DOMAIN stack[t] : stack[t][k].inst = i}
    IN  IF ks = {} THEN 0 ELSE CHOOSE k \in ks : \A j \in ks : j <= k

\* C9: a hook call made while a subprocess_runner(R) scope without inner
\* override is open on the instance invokes R, exactly once, and no other
\* runner; a call made after such a scope exited normally invokes the runner
\* that was current before the scope.
C9_ScopeRunnerInvoked ==
    \A t \in Threads :
        pc[t] \in {"running", "ran", "read", "finally", "returned"} =>
            LET i == call[t].inst
                k == InnermostOn(t, i)
            IN  /\ Len(call[t].invoked) = 1
                /\ (k > 0 /\ ~stack[t][k].inner)
                       => call[t].invoked = <<stack[t][k].runner>>
                /\ exited[i] # "" => call[t].invoked = <<exited[i]>>

\* a call inside a scope of runner_A, entered over the default runner, returned
C9_Witness ==
    /\ pc["t1"] = "returned"
    /\ Len(stack["t1"]) = 1
    /\ stack["t1"][1].runner = "runner_A"
    /\ stack["t1"][1].before = default_subprocess_runner
    /\ ~stack["t1"][1].inner
    /\ call["t1"].invoked = <<"runner_A">>

(***************************************************************************)
(* Claims about concurrent calls (SpecConc).                               *)
(***************************************************************************)
\* C10: with calls in flight concurrently, each in-flight call owns exactly one
\* scratch directory, no two in-flight calls have the same one, and a call
\* reads output.json from, and deletes, its own directory only.
C10_ScratchExclusive ==
    /\ \A t \in Threads : InFlight(t) => ScratchOf(t) = {call[t].td}
    /\ \A t, u \in Threads :
           (t # u /\ InFlight(t) /\ InFlight(u)) => call[t].td # call[u].td
    /\ \A t \in Threads : call[t].touched \subseteq {t}

\* two calls on the same instance, both with their runner running
C10_Witness ==
    /\ pc["t1"] = "running"
    /\ pc["t2"] = "running"
    /\ call["t1"].inst = call["t2"].inst
    /\ call["t1"].td # call["t2"].td
    /\ ScratchOf("t1") # {}
    /\ ScratchOf("t2") # {}

(***************************************************************************)
(* Claims about two instances (SpecConc: t1 uses both, t2 uses hooks1).    *)
(***************************************************************************)
\* thread t takes a step
Acts(t) == pc'[t] # pc[t] \/ call'[t] # call[t] \/ stack'[t] # stack[t]

\* the instance the step of thread t works on: the instance of the scope it
\* enters or leaves, else the instance of its hook call
ActsOn(t) ==
    IF Len(stack'[t]) > Len(stack[t]) THEN stack'[t][Len(stack'[t])].inst
    ELSE IF Len(stack'[t]) < Len(stack[t]) THEN stack[t][Len(stack[t])].inst
    ELSE IF call[t].inst # "" THEN call[t].inst
    ELSE call'[t].inst

\* C11: a scope entered or left on one instance, and every step of a hook call
\* on it, leaves the runner, source directory, backend identifier and backend
\* path of every other instance as they were, whatever the other thread does.
C11_InstancesIndependent ==
    [][\A t \in Threads :
           Acts(t) => \A j \in Inst \ {ActsOn(t)} : hooks'[j] = hooks[j]]_vars

\* t2 holds a scope of runner_B on hooks1 while t1's call on hooks2, started
\* after it, runs under hooks2's own default runner
C11_Witness ==
    /\ Len(stack["t2"]) = 1
    /\ stack["t2"][1].inst = "hooks1"
    /\ hooks["hooks1"]._subprocess_runner = "runner_B"
    /\ pc["t1"] = "running"
    /\ call["t1"].inst = "hooks2"
    /\ call["t1"].invoked = <<default_subprocess_runner>>
    /\ hooks["hooks2"] = Constructed["hooks2"]

(***************************************************************************)
(* Claims about the classification and the order of steps (Spec).          *)
(***************************************************************************)
\* marker m of document doc is set: present with a value that is true
IsSet(doc, m) == doc[m] # Absent /\ truthy(loads(doc[m]))

\* the text field k of document doc, '' when the field is missing
TextOf(doc, k) == IF doc[k] = Absent THEN PyStr("") ELSE loads(doc[k])

\* C12: the outcome follows the first marker set, in the order unsupported,
\* no_backend, backend_invalid: UnsupportedOperation with the traceback,
\* BackendUnavailable with the traceback, BackendInvalid with the instance's
\* backend identifier, its backend path and the backend_error text; return_val
\* is returned only when no marker is set, never when one is.
C12_ClassificationPriority ==
    \A t \in Threads :
        (Completed(t) /\ call[t].runnerExc = Exc("") /\ call[t].wrote # NoFile) =>
            LET d == call[t].wrote
                self == Constructed[call[t].inst]
            IN  /\ IF IsSet(d, "unsupported")
                   THEN call[t].result =
                            Raised(UnsupportedOperation(TextOf(d, "traceback")))
                   ELSE IF IsSet(d, "no_backend")
                   THEN call[t].result =
                            Raised(BackendUnavailable(TextOf(d, "traceback")))
                   ELSE IF IsSet(d, "backend_invalid")
                   THEN call[t].result =
                            Raised(BackendInvalid(self.build_backend,
                                                  self.backend_path,
                                                  TextOf(d, "backend_error")))
                   ELSE d["return_val"] # Absent
                            => call[t].result = Returned(loads(d["return_val"]))
                /\ ~NoMarker(d) => (pc[t] = "raised" /\ call[t].result.kind = "raise")

\* a document with no_backend, backend_invalid and return_val on the instance
\* that has a backend path raised BackendUnavailable, the first in the order
C12_Witness ==
    /\ pc["t1"] = "raised"
    /\ call["t1"].inst = "hooks1"
    /\ call["t1"].wrote = Doc([no_backend |-> "true", backend_invalid |-> "true",
                               traceback |-> "\"T\"", return_val |-> "0"])
    /\ call["t1"].result = Raised(BackendUnavailable(PyStr("T")))

\* what a step of thread t's hook call does, read off the two states
CreatesScratch(t) == call[t].td = "" /\ call'[t].td # ""
WritesInput(t) ==
    call[t].td # "" /\ ~fs[call[t].td].hasInput /\ fs'[call[t].td].hasInput
Invokes(t) == call'[t].invoked # <<>> /\ call'[t].invoked # call[t].invoked
Reads(t) == ~call[t].didRead /\ call'[t].didRead
Settles(t) == call[t].result = NoResult /\ call'[t].result # NoResult
DeletesScratch(t) ==
    call[t].td # "" /\ fs[call[t].td].exists /\ ~fs'[call[t].td].exists

\* C13: within one hook call the scratch directory is created first, input.json
\* is written into it before the runner is invoked, the runner is invoked once
\* and never again, output.json is read only after the runner returned without
\* error, the outcome is settled after the read (or by the failure of the
\* runner or of the read), and the directory is deleted last.
C13_StepOrder ==
    [][\A t \in Threads :
           LET td == call[t].td
           IN  /\ CreatesScratch(t) =>
                      /\ fs'[call'[t].td].exists /\ ~fs'[call'[t].td].hasInput
                      /\ call'[t].invoked = <<>> /\ ~call'[t].didRead
                      /\ call'[t].result = NoResult
               /\ WritesInput(t) =>
                      /\ fs[td].exists /\ call[t].invoked = <<>>
                      /\ fs'[td].input = [kwargs |-> call[t].kwargs]
               /\ Invokes(t) =>
                      /\ call[t].invoked = <<>> /\ Len(call'[t].invoked) = 1
                      /\ fs[td].exists /\ fs[td].hasInput
                      /\ ~call[t].didRead /\ call[t].result = NoResult
               /\ Reads(t) =>
                      /\ Len(call[t].invoked) = 1 /\ pc[t] = "ran"
                      /\ call[t].runnerExc = Exc("") /\ call[t].result = NoResult
                      /\ fs[td].exists
               /\ Settles(t) =>
                      /\ Len(call[t].invoked) = 1 /\ fs[td].exists
                      /\ \/ call[t].didRead
                         \/ Reads(t) /\ call'[t].result.kind = "raise"
                         \/ /\ pc[t] = "running"
                            /\ call'[t].result = Raised(call'[t].runnerExc)
               /\ DeletesScratch(t) =>
                      /\ Len(call[t].invoked) = 1 /\ call[t].result # NoResult
                      /\ call'[t].invoked = call[t].invoked
                      /\ pc'[t] \in {"returned", "raised"}
               /\ Len(call'[t].invoked) <= 1]_vars

\* a call that raised UnsupportedOperation went through every step once
C13_Witness ==
    /\ pc["t1"] = "raised"
    /\ call["t1"].result.exc.type = "UnsupportedOperation"
    /\ Len(call["t1"].invoked) = 1
    /\ call["t1"].didRead
    /\ call["t1"].data = call["t1"].wrote
    /\ \A d \in DirNames : ~fs[d].exists

(***************************************************************************)
(* Nested scopes in one thread (SpecScope).                                *)
(***************************************************************************)
\* thread t enters a scope in this step
EntersScope(t) == Len(stack'[t]) = Len(stack[t]) + 1

\* thread t leaves its innermost scope with the body completed: no exception
\* is propagating
ExitsNormally(t) == LeavesScope(t) /\ pc[t] = "idle"

\* C14: in one thread the overrides of an instance nest like a stack.  A scope
\* entered installs its runner; a scope B entered while scope A's runner was
\* current gives, when B exits normally, A's runner back; the outermost scope
\* gives, when it exits normally, the runner that was current before it; and
\* between those steps the runner stays, a call invoking the current one once.
C14_StackDiscipline ==
    [][\A t \in Threads :
           LET n == Len(stack[t])
           IN  /\ EntersScope(t) =>
                      LET new == stack'[t][n + 1]
                      IN  /\ hooks'[new.inst]._subprocess_runner = new.runner
                          /\ new.before = hooks[new.inst]._subprocess_runner
               /\ ExitsNormally(t) =>
                      LET B == stack[t][n]
                      IN  /\ hooks'[B.inst]._subprocess_runner = B.before
                          /\ (/\ n > 1
                              /\ stack[t][n - 1].inst = B.inst
                              /\ B.before = stack[t][n - 1].runner)
                                 => hooks'[B.inst]._subprocess_runner =
                                        stack[t][n - 1].runner
               /\ (Acts(t) /\ stack'[t] = stack[t]) => hooks' = hooks
               /\ Invokes(t) =>
                      call'[t].invoked =
                          <<hooks[call[t].inst]._subprocess_runner>>]_vars

\* scope A (runner_A) is open, a scope entered inside it exited normally giving
\* runner_A back, and the call made after that invoked runner_A
C14_Witness ==
    /\ pc["t1"] = "returned"
    /\ Len(stack["t1"]) = 1
    /\ stack["t1"][1].runner = "runner_A"
    /\ stack["t1"][1].inner
    /\ exited["hooks1"] = "runner_A"
    /\ hooks["hooks1"]._subprocess_runner = "runner_A"
    /\ call["t1"].invoked = <<"runner_A">>

(***************************************************************************)
(* Two threads overriding the runner of one instance (SpecRace).           *)
(***************************************************************************)
\* the scopes thread t has open on instance i
OpenOn(t, i) == {k \in DOMAIN stack[t] : stack[t][k].inst = i}

\* C15: the override is a field of the instance that threads write without
\* synchronisation.  Entering a scope overwrites it whatever scope another
\* thread has open; a normal exit writes back what the exiting scope found at
\* its entry, whatever happened since; a call invokes the field's value at that
\* moment, also inside a scope of its own thread.  So scopes of two threads
\* entered and exited in the same order leave a runner that was not current
\* before either, and a call inside one thread's scope invokes the other's.
C15_OverrideRaces ==
    [][\A t \in Threads :
           /\ EntersScope(t) =>
                  LET new == stack'[t][Len(stack'[t])]
                  IN  /\ hooks'[new.inst]._subprocess_runner = new.runner
                      /\ \A u \in Threads \ {t} : stack'[u] = stack[u]
           /\ ExitsNormally(t) =>
                  LET frame == stack[t][Len(stack[t])]
                  IN  /\ hooks'[frame.inst]._subprocess_runner = frame.before
                      /\ \A u \in Threads \ {t} : stack'[u] = stack[u]
           /\ Invokes(t) =>
                  call'[t].invoked = <<hooks[call[t].inst]._subprocess_runner>>]_vars

\* both races at once.  On hooks1 no scope is open, the scope that exited last
\* gave back a runner some scope had installed, and that runner, not the default
\* one of construction, is current.  On hooks2 both threads have a scope open
\* and t1's call, made inside its scope of runner_A, invoked t2's runner_B.
C15_Witness ==
    /\ \A t \in Threads : OpenOn(t, "hooks1") = {}
    /\ hooks["hooks1"]._subprocess_runner \in CustomRunners
    /\ exited["hooks1"] = hooks["hooks1"]._subprocess_runner
    /\ \A t \in Threads : OpenOn(t, "hooks2") = {1}
    /\ stack["t1"][1].runner = "runner_A"
    /\ stack["t2"][1].runner = "runner_B"
    /\ pc["t1"] = "running"
    /\ call["t1"].inst = "hooks2"
    /\ call["t1"].invoked = <<"runner_B">>

(***************************************************************************)
(* What the runner is handed (Spec).                                       *)
(***************************************************************************)
\* the pieces of string s between the separators sep (one character)
RECURSIVE PiecesOf(_, _)
PiecesOf(s, sep) ==
    IF \A k \in 1..Len(s) : s[k] # sep THEN <<s>>
    ELSE LET k == CHOOSE j \in 1..Len(s) :
                      s[j] = sep /\ \A m \in 1..(j - 1) : s[m] # sep
         IN  <<SubSeq(s, 1, k - 1)>> \o PiecesOf(SubSeq(s, k + 1, Len(s)), sep)

\* the runner of thread t's call has been invoked
Invoked(t) == call[t].invoked # <<>>

PathUnderSource(obj) ==
    \/ obj.backend_path = NoneList
    \/ \A k \in DOMAIN obj.backend_path :
           /\ isabs(obj.backend_path[k])
           /\ IsPrefix(Segments(obj.source_dir), Segments(obj.backend_path[k]))

\* the instances in use have the fields they were constructed with
FieldsFixed ==
    \A i \in Inst :
        /\ hooks[i].source_dir = Constructed[i].source_dir
        /\ hooks[i].build_backend = Constructed[i].build_backend
        /\ hooks[i].backend_path = Constructed[i].backend_path

\* from the runner's invocation on, the instance's runner is the one invoked
RunnerKeptByCall ==
    \A t \in Threads :
        Invoked(t) => hooks[call[t].inst]._subprocess_runner = call[t].invoked[1]

\* C17: every constructed instance has a backend path that is absent or made of
\* absolute paths under its source directory; source directory, backend
\* identifier and backend path stay as constructed through hook calls and
\* scopes, and a hook call leaves the current runner as it is.
C17_InstanceInvariant ==
    /\ (WasConstructed /\ pathOut.construct.exc = NoExc) =>
           /\ PathUnderSource(pathOut.construct.obj)
           /\ pathOut.construct.obj.source_dir = RootOf(pathIn)
           /\ pathOut.construct.obj.build_backend = "be"
    /\ \A i \in Inst : PathUnderSource(hooks[i])
    /\ FieldsFixed
    /\ RunnerKeptByCall

(***************************************************************************)
(* The environment of the child under the default runner (SpecEnv).        *)
(***************************************************************************)
\* C18: the default runner hands the child the parent's environment with the
\* extra entries laid over it, an extra entry replacing a parent entry of the
\* same key, and no step of a call, whether the child exits zero or not,
\* changes the parent's own environment; so the child of an instance without
\* backend path has PEP517_BACKEND_PATH only if the parent had it from the
\* start, never from an earlier call.
C18_ChildEnvironment ==
    [][/\ os_environ' = os_environ
       /\ \A t \in Threads :
              (Invokes(t) /\ call'[t].invoked = <<default_subprocess_runner>>) =>
                  LET env == call'[t].env
                      extra == call[t].extra_environ
                  IN  /\ DOMAIN env = DOMAIN os_environ \cup DOMAIN extra
                      /\ \A k \in DOMAIN extra : env[k] = extra[k]
                      /\ \A k \in DOMAIN os_environ \ DOMAIN extra :
                             env[k] = os_environ[k]
                      /\ Constructed[call[t].inst].backend_path = NoneList =>
                             /\ "PEP517_BACKEND_PATH" \in DOMAIN env
                                    <=> "PEP517_BACKEND_PATH" \in DOMAIN os_environ
                             /\ "PEP517_BACKEND_PATH" \in DOMAIN env =>
                                    env.PEP517_BACKEND_PATH =
                                        os_environ.PEP517_BACKEND_PATH]_vars

\* t2's call on the instance with a backend path has returned, its child had
\* PEP517_BACKEND_PATH; t1's later call on the instance without one failed with
\* a non-zero exit, its child had no PEP517_BACKEND_PATH and had the
\* PEP517_BUILD_BACKEND of this call in place of the parent's; the parent's
\* environment is as it was
C18_Witness ==
    /\ pc["t2"] = "returned"
    /\ call["t2"].inst = "hooks1"
    /\ call["t2"].env.PEP517_BACKEND_PATH =
           <<"/", "p", "/", "p", ":", "/", "p", "/", "p", "/", "p">>
    /\ pc["t1"] = "raised"
    /\ call["t1"].inst = "hooks2"
    /\ call["t1"].result.exc.type = "CalledProcessError"
    /\ call["t1"].invoked = <<default_subprocess_runner>>
    /\ DOMAIN call["t1"].env = {"HOME", "PEP517_BUILD_BACKEND"}
    /\ call["t1"].env.PEP517_BUILD_BACKEND = "be"
    /\ call["t1"].env.HOME = "/root"
    /\ os_environ = [HOME |-> "/root", PEP517_BUILD_BACKEND |-> "old"]

(***************************************************************************)
(* Termination of a hook call (SpecLive).                                  *)
(***************************************************************************)
StructuredErrors == {"UnsupportedOperation", "BackendUnavailable", "BackendInvalid"}

\* the ways the call of thread t has ended
COMPLETED(t) == pc[t] = "returned" /\ call[t].result.kind = "return"
FAILED(t) ==
    /\ pc[t] = "raised" /\ call[t].runnerExc = Exc("")
    /\ call[t].result.kind = "raise"
    /\ call[t].result.exc.type \in StructuredErrors
ABORTED(t) ==
    /\ pc[t] = "raised" /\ call[t].runnerExc # Exc("")
    /\ call[t].result = Raised(call[t].runnerExc)
\* the runner returned, and reading output.json or looking up return_val raised
FAULTED(t) ==
    /\ pc[t] = "raised" /\ call[t].runnerExc = Exc("")
    /\ call[t].result.kind = "raise"
    /\ call[t].result.exc.type \in {"IOError", "KeyError"}
    /\ \/ call[t].wrote = NoFile
       \/ NoMarker(call[t].wrote) /\ call[t].wrote["return_val"] = Absent

\* exactly one of the truth values listed in ways holds
ExactlyOne(ways) == Cardinality({k \in DOMAIN ways : ways[k]}) = 1

\* the runner of thread t's call is running: the call is DISPATCHED
DISPATCHED(t) == pc[t] = "running"

\* the runner of thread t's call has returned or raised and the call goes on
RunnerDone(t) == pc[t] \in {"ran", "read", "finally"}

\* a dispatched call waits for its runner: its directory stays, it has no
\* outcome, and it leaves DISPATCHED only by the runner returning or raising
WaitsForRunner ==
    /\ [](\A t \in Threads :
              DISPATCHED(t) => /\ fs[call[t].td].exists
                               /\ call[t].result = NoResult)
    /\ [][\A t \in Threads :
              (DISPATCHED(t) /\ ~DISPATCHED(t)') =>
                  \/ pc'[t] = "ran" /\ call'[t].runnerExc = Exc("")
                  \/ pc'[t] = "finally" /\ call'[t].runnerExc # Exc("")]_vars

\* C19 as stated: a call whose runner returns or raises terminates, in exactly
\* one of COMPLETED, FAILED and ABORTED, with its scratch directory deleted; a
\* call whose runner never returns stays DISPATCHED with its directory.
C19_TerminatesInOneOfThree ==
    /\ \A t \in Threads : RunnerDone(t) ~> Completed(t)
    /\ [](\A t \in Threads :
              Completed(t) =>
                  /\ ExactlyOne(<<COMPLETED(t), FAILED(t), ABORTED(t)>>)
                  /\ ScratchOf(t) = {})
    /\ WaitsForRunner

\* C19 amended: the call terminates in exactly one of COMPLETED, FAILED,
\* ABORTED and FAULTED, the last when the runner returned but output.json is
\* missing or has no marker set and no return_val; in each its scratch
\* directory is deleted; a call whose runner never returns stays DISPATCHED.
C19_TerminatesInOneOfFour ==
    /\ \A t \in Threads : RunnerDone(t) ~> Completed(t)
    /\ [](\A t \in Threads :
              Completed(t) =>
                  /\ ExactlyOne(<<COMPLETED(t), FAILED(t), ABORTED(t),
                                   FAULTED(t)>>)
                  /\ ScratchOf(t) = {})
    /\ WaitsForRunner

\* the runner returned leaving an output.json with a traceback only: the call
\* ended with the KeyError of the missing return_val, its directory deleted
C19_Witness ==
    /\ FAULTED("t1")
    /\ call["t1"].wrote = Doc([traceback |-> "\"T\""])
    /\ call["t1"].result.exc.type = "KeyError"
    /\ \A d \in DirNames : ~fs[d].exists

(***************************************************************************)
(* A child that leaves no usable output (Spec).                            *)
(***************************************************************************)
\* the runner of thread t's call returned, and the child left no output.json,
\* or one with no marker set and without return_val
NoUsableOutput(t) ==
    /\ call[t].runnerExc = Exc("")
    /\ pc[t] \in {"ran", "read", "finally", "returned", "raised"}
    /\ \/ call[t].wrote = NoFile
       \/ NoMarker(call[t].wrote) /\ call[t].wrote["return_val"] = Absent

\* C20: when the runner returns and the child left no output.json, or one with
\* no marker set and no return_val, the call raises to its caller an error that
\* is none of the three structured ones, returns no value, not even a default,
\* and its scratch directory is deleted.
C20_NoOutputRaises ==
    \A t \in Threads :
        NoUsableOutput(t) =>
            /\ pc[t] # "returned"
            /\ call[t].result.kind # "return"
            /\ pc[t] = "raised" =>
                   /\ call[t].result.kind = "raise"
                   /\ call[t].result.exc.type \notin StructuredErrors
                   /\ call[t].result.exc.type # ""
                   /\ call[t].result.value = PyNone
                   /\ ScratchOf(t) = {}
                   /\ ~fs[call[t].td].exists

\* build_wheel under the default runner: the child exited with status 0 and
\* left no output.json; the call raised the error of opening it
C20_Witness ==
    /\ pc["t1"] = "raised"
    /\ call["t1"].hook = "build_wheel"
    /\ call["t1"].invoked = <<default_subprocess_runner>>
    /\ call["t1"].runnerExc = Exc("")
    /\ call["t1"].wrote = NoFile
    /\ call["t1"].didRead
    /\ call["t1"].result.exc.type = "IOError"
    /\ \A d \in DirNames : ~fs[d].exists

====
